---- MODULE Spec2Model ----
(***************************************************************************)
(* go-google-contacts: the Auth Manager (contacts/auth.go) and the         *)
(* Directory Client's fetch/save operations with their renew-and-retry     *)
(* block (package contacts, client file), and the Entry codec: GetId,       *)
(* marshalling with fixXml, and unmarshalling, on documents taken          *)
(* character by character.                                                 *)
(*                                                                         *)
(* Strings that the code only compares with "" are modelled as naturals:   *)
(* 0 is the empty string, 1..n are distinct non-empty values.              *)
(***************************************************************************)
EXTENDS Integers, Sequences, FiniteSets, TLC

\* ---------------------------------------------------------------- bounds
\* non-empty access tokens are 1..MaxToken, non-empty refresh tokens 1..MaxRefresh
MaxToken == 2
MaxRefresh == 1

Procs == {1, 2}
\* the callers that run in the sequential specification
SeqProcs == {1}

EmptyString == 0
Tokens == 0..MaxToken
RefreshTokens == 0..MaxRefresh

\* ---------------------------------------------------------------- errors
\* a Go error value: its kind and, for a rejected response, the status it carries
NoErr == [kind |-> "nil", status |-> 0]
Err(k) == [kind |-> k, status |-> 0]
StatusErr(s) == [kind |-> "status", status |-> s]
ErrLoad == Err("load")
ErrNoRefreshToken == Err("no refresh token provided")
ErrPostForm == Err("postform")
ErrJSON == Err("json")
ErrSave == Err("save")
ErrBuild == Err("newrequest")
ErrDo == Err("do")
ErrRead == Err("read")
ErrXML == Err("xml")

\* ------------------------------------------------------- credential record
AuthDetails == [RefreshToken : RefreshTokens, AccessToken : Tokens]

\* ------------------------------------------------------- token exchanger
\* what http.PostForm gives back: a transport error, or a response body that
\* is a JSON document (valid or not) with the access_token it decodes to
\* (0: the field is missing or empty)
PostOutcomes ==
    {[neterr |-> TRUE, valid |-> FALSE, access_token |-> 0]}
    \cup [neterr : {FALSE}, valid : BOOLEAN, access_token : Tokens]

unmarshalAccessToken(buf) ==
    [token |-> buf.access_token, err |-> IF buf.valid THEN NoErr ELSE ErrJSON]

Retrieve(post) ==
    IF post.neterr THEN [token |-> EmptyString, err |-> ErrPostForm]
    ELSE unmarshalAccessToken(post)

\* ------------------------------------------------------- auth manager
\* variant: the cached token is never used
AccessTokenCachedNever(ad) == FALSE
\* AccessToken returns the loaded record's token when it is not empty
AccessTokenCached(ad) == ad.AccessToken /= EmptyString

\* variant: Renew consults the cached token as AccessToken does
ConsultsCacheAlways(fn) == TRUE
\* which entry point consults the cached token before exchanging
ConsultsCache(fn) == fn = "AccessToken"

\* Renew: authDetails.AccessToken = ""
ClearAccessToken(ad) == [ad EXCEPT !.AccessToken = EmptyString]

\* variant: the guard is missing
RefreshTokenNeverMissing(ad) == FALSE
\* exchangeRefreshTokenForAccessTokenAndStore: the refresh-token guard
RefreshTokenMissing(ad) == ad.RefreshToken = EmptyString

\* variant: the assignment is missing, the record is saved as loaded
SetAccessTokenForgotten(ad, accessToken) == ad
\* variant: a fresh record is built that holds the access token only
SetAccessTokenFreshRecord(ad, accessToken) ==
    [RefreshToken |-> EmptyString, AccessToken |-> accessToken]
\* exchangeRefreshTokenForAccessTokenAndStore: authDetails.AccessToken = accessToken
SetAccessToken(ad, accessToken) == [ad EXCEPT !.AccessToken = accessToken]

\* variant: Save's error is returned
ReturnSaveError(accessToken, saveErr) ==
    IF saveErr = NoErr THEN [token |-> accessToken, err |-> NoErr]
    ELSE [token |-> EmptyString, err |-> saveErr]
\* exchangeRefreshTokenForAccessTokenAndStore: the return after Save
\* (_ = m.AuthStorage.Save(authDetails); return accessToken, nil)
ReturnAfterSave(accessToken, saveErr) == [token |-> accessToken, err |-> NoErr]

\* variant: what Retrieve returned is passed on as it is
ExchangeFailureAsIs(r) == r
\* exchangeRefreshTokenForAccessTokenAndStore: if err != nil { return "", err }
ExchangeFailure(r) == [token |-> EmptyString, err |-> r.err]

\* ------------------------------------------------------- wire
\* status codes the remote service answers with
Statuses == {200, 299, 300, 401, 500}
\* a response body: an <entry> document, a <feed> document, or bytes that are
\* no well-formed XML document
Bodies == {"entry", "feed", "garbage"}

\* what HTTPClient.Do and the reading of the body give back: no response, a
\* response of status >= 300 (its body is an error text), a response of status
\* < 300 with one of the bodies, or one whose body cannot be read to its end
TransportOutcomes ==
    {[kind |-> "neterr", status |-> 0, body |-> "none", readOK |-> FALSE]}
    \cup [kind : {"response"}, status : {s \in Statuses : s >= 300},
          body : {"errtext"}, readOK : {TRUE}]
    \cup [kind : {"response"}, status : {s \in Statuses : s < 300},
          body : Bodies, readOK : {TRUE}]
    \cup [kind : {"response"}, status : {200}, body : {"partial"},
          readOK : {FALSE}]

\* a request: its method, its headers, and the credential its query string
\* carries (the other query parameters are not modelled)
NoRequest == [method |-> "none", header |-> {}, query |-> {}]
NoData == "nil"

\* resp.StatusCode >= 300
StatusThreshold == 300
\* variant: status 300 itself is accepted
IsRejectedAbove(status) == status > StatusThreshold
\* variant: every status but 200 is rejected
IsRejectedUnless200(status) == status /= 200
IsRejected(status) == status >= StatusThreshold

\* variant: the Authorization header is added whatever the token
GetHeaderAlwaysBearer(accessToken) ==
    {<<"GData-Version", "3.0">>, <<"Authorization", <<"Bearer", accessToken>> >>}
\* request headers, as (name, value) pairs
GetHeader(accessToken) ==
    {<<"GData-Version", "3.0">>}
    \cup (IF accessToken /= EmptyString
          THEN {<<"Authorization", <<"Bearer", accessToken>> >>} ELSE {})

PutHeader(accessToken, etag) ==
    {<<"GData-Version", "3.0">>,
     <<"Content-Type", "application/atom+xml">>,
     <<"If-Match", etag>>}
    \cup (IF accessToken /= EmptyString
          THEN {<<"Authorization", <<"Bearer", accessToken>> >>} ELSE {})

\* Client.get: (bytes, mime, error); req is what went on the wire
get(urlOK, accessToken, t) ==
    IF ~urlOK
    THEN [data |-> NoData, mime |-> "", err |-> ErrBuild, req |-> NoRequest,
          panic |-> FALSE]
    ELSE LET req == [method |-> "GET", header |-> GetHeader(accessToken),
                     query |-> {}] IN
         IF t.kind = "neterr"
         THEN [data |-> NoData, mime |-> "", err |-> ErrDo, req |-> req,
               panic |-> FALSE]
         ELSE IF IsRejected(t.status)
         THEN [data |-> NoData, mime |-> "", err |-> StatusErr(t.status),
               req |-> req, panic |-> FALSE]
         ELSE IF t.readOK
         THEN [data |-> t.body, mime |-> "Content-Type", err |-> NoErr,
               req |-> req, panic |-> FALSE]
         ELSE [data |-> t.body, mime |-> "Content-Type", err |-> ErrRead,
               req |-> req, panic |-> FALSE]

\* xml.Unmarshal into a Feed (no XMLName: any root element is accepted)
unmarshalResponse(data) ==
    IF data \in {"entry", "feed"}
    THEN [val |-> "Feed", err |-> NoErr] ELSE [val |-> NoData, err |-> ErrXML]

\* xml.Unmarshal into an Entry (XMLName entry: the root must be <entry>)
unmarshalEntry(data) ==
    IF data = "entry"
    THEN [val |-> "Entry", err |-> NoErr] ELSE [val |-> NoData, err |-> ErrXML]

\* Client.saveContactRaw: http.NewRequest's error is tested only after the
\* request's headers are set, so a nil request is dereferenced (panic)
saveContactRaw(accessToken, entry, t) ==
    IF ~entry.marshalOK
    THEN [data |-> NoData, mime |-> "", err |-> ErrXML, req |-> NoRequest,
          panic |-> FALSE]
    ELSE IF ~entry.urlOK
    THEN [data |-> NoData, mime |-> "", err |-> NoErr, req |-> NoRequest,
          panic |-> TRUE]
    ELSE LET req == [method |-> "PUT",
                     header |-> PutHeader(accessToken, entry.etag),
                     query |-> {}] IN
         IF t.kind = "neterr"
         THEN [data |-> NoData, mime |-> "", err |-> ErrDo, req |-> req,
               panic |-> FALSE]
         ELSE IF IsRejected(t.status)
         THEN [data |-> NoData, mime |-> "", err |-> StatusErr(t.status),
               req |-> req, panic |-> FALSE]
         ELSE IF t.readOK
         THEN [data |-> t.body, mime |-> "", err |-> NoErr, req |-> req,
               panic |-> FALSE]
         ELSE [data |-> NoData, mime |-> "", err |-> ErrRead, req |-> req,
               panic |-> FALSE]

\* Client.saveContact: saveContactRaw, then unmarshalEntry of the answer
saveContact(accessToken, entry, t) ==
    LET r == saveContactRaw(accessToken, entry, t) IN
    IF r.panic \/ r.err /= NoErr THEN r
    ELSE LET u == unmarshalEntry(r.data) IN
         [r EXCEPT !.data = u.val, !.err = u.err]

\* Client.retrieveGroups, Client.retrieveFeed: the URL is built from constants
\* and encoded values, so http.NewRequest accepts it
retrieveGroups(accessToken, t) == [get(TRUE, accessToken, t) EXCEPT !.mime = ""]
retrieveFeed(accessToken, t) == [get(TRUE, accessToken, t) EXCEPT !.mime = ""]
\* Client.fetchContact: the URL is the caller's contactID
fetchContact(accessToken, in, t) ==
    [get(in.urlOK, accessToken, t) EXCEPT !.mime = ""]

\* ------------------------------------------------------- simplified client
\* the client of the contacts package that the command-line tool uses: the
\* access token travels as the access_token query parameter
SimpleQuery(accessToken) == {<<"access_token", accessToken>>}
SimpleGetHeader == {<<"GData-Version", "3.0">>}
SimplePutHeader(etag) ==
    {<<"GData-Version", "3.0">>,
     <<"Content-Type", "application/atom+xml">>,
     <<"If-Match", etag>>}

\* Client.get of the simplified client: (bytes, error)
simpleGet(urlOK, accessToken, t) ==
    IF ~urlOK
    THEN [data |-> NoData, mime |-> "", err |-> ErrBuild, req |-> NoRequest,
          panic |-> FALSE]
    ELSE LET req == [method |-> "GET", header |-> SimpleGetHeader,
                     query |-> SimpleQuery(accessToken)] IN
         IF t.kind = "neterr"
         THEN [data |-> NoData, mime |-> "", err |-> ErrDo, req |-> req,
               panic |-> FALSE]
         ELSE IF IsRejected(t.status)
         THEN [data |-> NoData, mime |-> "", err |-> StatusErr(t.status),
               req |-> req, panic |-> FALSE]
         ELSE [data |-> t.body, mime |-> "",
               err |-> IF t.readOK THEN NoErr ELSE ErrRead,
               req |-> req, panic |-> FALSE]

\* Client.saveContact of the simplified client: as saveContactRaw, the
\* request's headers are set before http.NewRequest's error is tested
simpleSaveContact(accessToken, entry, t) ==
    IF ~entry.marshalOK
    THEN [data |-> NoData, mime |-> "", err |-> ErrXML, req |-> NoRequest,
          panic |-> FALSE]
    ELSE IF ~entry.urlOK
    THEN [data |-> NoData, mime |-> "", err |-> NoErr, req |-> NoRequest,
          panic |-> TRUE]
    ELSE LET req == [method |-> "PUT", header |-> SimplePutHeader(entry.etag),
                     query |-> SimpleQuery(accessToken)] IN
         IF t.kind = "neterr"
         THEN [data |-> NoData, mime |-> "", err |-> ErrDo, req |-> req,
               panic |-> FALSE]
         ELSE IF IsRejected(t.status)
         THEN [data |-> NoData, mime |-> "", err |-> StatusErr(t.status),
               req |-> req, panic |-> FALSE]
         ELSE IF ~t.readOK
         THEN [data |-> NoData, mime |-> "", err |-> ErrRead, req |-> req,
               panic |-> FALSE]
         ELSE LET u == unmarshalEntry(t.body) IN
              [data |-> u.val, mime |-> "", err |-> u.err, req |-> req,
               panic |-> FALSE]

\* the simplified client's public operations
SimpleOps ==
    {"SimpleFetchFeedRaw", "SimpleFetchFeed", "SimpleFetchContactRaw",
     "SimpleFetchContact", "SimpleSave"}

\* ------------------------------------------------------- operations
AuthOps == {"AccessToken", "Renew"}
RawOps == {"FetchGroupsRaw", "FetchFeedRaw", "FetchContactRaw", "SaveRaw"}
DecodingOps == {"FetchGroups", "FetchFeed", "FetchContact", "Save"}
ImageOps == {"FetchContactImage"}
ClientOps == RawOps \cup DecodingOps \cup ImageOps
Ops == AuthOps \cup ClientOps

\* the caller's arguments: whether the URL (contactID, href, entry URI) is one
\* http.NewRequest accepts, the entry's entity tag, whether the entry marshals
DefaultInput == [urlOK |-> TRUE, etag |-> 0, marshalOK |-> TRUE]
Inputs(o) ==
    IF o \in {"Save", "SaveRaw", "SimpleSave"}
    THEN [urlOK : {TRUE}, etag : {0, 1}, marshalOK : {TRUE}]
         \cup {[urlOK |-> FALSE, etag |-> 0, marshalOK |-> TRUE],
                [urlOK |-> TRUE, etag |-> 0, marshalOK |-> FALSE]}
    ELSE IF o \in {"FetchContactRaw", "FetchContact", "FetchContactImage",
                    "SimpleFetchContactRaw", "SimpleFetchContact"}
    THEN [urlOK : BOOLEAN, etag : {0}, marshalOK : {TRUE}]
    ELSE {DefaultInput}

\* one wire attempt of operation o
Attempt(o, in, accessToken, t) ==
    CASE o \in {"FetchGroupsRaw", "FetchGroups"} -> retrieveGroups(accessToken, t)
      [] o \in {"FetchFeedRaw", "FetchFeed"} -> retrieveFeed(accessToken, t)
      [] o \in {"FetchContactRaw", "FetchContact"} -> fetchContact(accessToken, in, t)
      [] o = "FetchContactImage" -> get(in.urlOK, accessToken, t)
      [] o = "SaveRaw" -> saveContactRaw(accessToken, in, t)
      [] o = "Save" -> saveContact(accessToken, in, t)
      [] o \in {"SimpleFetchFeedRaw", "SimpleFetchFeed"} ->
            simpleGet(TRUE, accessToken, t)
      [] o \in {"SimpleFetchContactRaw", "SimpleFetchContact"} ->
            simpleGet(in.urlOK, accessToken, t)
      [] o = "SimpleSave" -> simpleSaveContact(accessToken, in, t)

\* the operations whose body holds the "if err != nil { Renew; retry }" block
HasRetryBlock(o) == o \in RawOps \cup DecodingOps \cup SimpleOps

\* variant: only an authorization rejection leads to Renew
NeedsRenewOn401(err) == err.kind = "status" /\ err.status = 401
\* "if err != nil" after the first attempt
NeedsRenew(err) == err /= NoErr

\* variant: the retry's outcome is dropped, the first attempt's is returned
AfterRetryKeepsFirst(first, second) == first
\* data, err = c.retrieveFeed(...) in the retry: the retry's outcome
\* replaces the first attempt's
AfterRetry(first, second) == second

\* variant: the first attempt's error is returned when Renew fails
RenewFailureKeepsFirst(firstErr, renewErr) == firstErr
\* accessToken, err = c.AuthManager.Renew(); if err != nil { return nil, err }:
\* Renew's error replaces the first attempt's
RenewFailure(firstErr, renewErr) == renewErr

\* variant: once the operation holds a token it keeps it
AssignTokenKeepsOld(old, returned) ==
    IF old /= EmptyString THEN old ELSE returned
\* accessToken, err := c.AuthManager.AccessToken() and
\* accessToken, err = c.AuthManager.Renew(): the local takes what was returned
AssignToken(old, returned) == returned

\* what the public operation returns for its last attempt r
OpReturn(o, r) ==
    IF r.panic THEN [val |-> NoData, mime |-> "", err |-> NoErr, panic |-> TRUE]
    ELSE IF r.err /= NoErr
    THEN IF o = "FetchContactImage"
         THEN [val |-> r.data, mime |-> r.mime, err |-> r.err, panic |-> FALSE]
         ELSE [val |-> NoData, mime |-> "", err |-> r.err, panic |-> FALSE]
    ELSE CASE o \in {"FetchGroups", "FetchFeed", "SimpleFetchFeed"} ->
                LET u == unmarshalResponse(r.data) IN
                [val |-> u.val, mime |-> "", err |-> u.err, panic |-> FALSE]
           [] o \in {"FetchContact", "SimpleFetchContact"} ->
                LET u == unmarshalEntry(r.data) IN
                [val |-> u.val, mime |-> "", err |-> u.err, panic |-> FALSE]
           [] OTHER ->
                [val |-> r.data, mime |-> r.mime, err |-> NoErr, panic |-> FALSE]

\* an operation that fails before any attempt (AccessToken or Renew failed)
OpFail(err) == [val |-> NoData, mime |-> "", err |-> err, panic |-> FALSE]
NoResult == [val |-> NoData, mime |-> "", err |-> NoErr, panic |-> FALSE]

\* ------------------------------------------------------- entries
\* Go strings are strings here; as in Go their positions count from 0
MaxIdLen == 4
IdAlphabet == {"/", "a", "b"}
ExampleId == ".../contacts/default/full/abc123"

\* the strings over an alphabet of length at most n
RECURSIVE Strings(_, _)
Strings(alphabet, n) ==
    IF n = 0 THEN {""}
    ELSE LET S == Strings(alphabet, n - 1) IN
         S \cup {s \o c : s \in S, c \in alphabet}

SetMax(S) == CHOOSE x \in S : \A y \in S : y <= x
SetMin(S) == CHOOSE x \in S : \A y \in S : x <= y

\* s[i]
CharAt(s, i) == SubSeq(s, i + 1, i + 1)
\* the positions of s that hold the one-character string c
Positions(s, c) == {i \in 0..(Len(s) - 1) : CharAt(s, i) = c}

\* variant: the first occurrence (strings.Index)
LastIndexFirst(s, sep) ==
    IF Positions(s, sep) = {} THEN -1 ELSE SetMin(Positions(s, sep))
\* strings.LastIndex(s, sep) for a one-character sep: the last position of
\* sep in s, -1 when s has none
LastIndex(s, sep) ==
    IF Positions(s, sep) = {} THEN -1 ELSE SetMax(Positions(s, sep))

\* s[lo:hi]; Go panics unless 0 <= lo <= hi <= len(s)
Slice(s, lo, hi) ==
    IF 0 <= lo /\ lo <= hi /\ hi <= Len(s)
    THEN [val |-> SubSeq(s, lo + 1, hi), panic |-> FALSE]
    ELSE [val |-> "", panic |-> TRUE]

\* pos := strings.LastIndex(e.Id, "/"); return e.Id[pos+1 : len(e.Id)]
GetId(e) ==
    LET pos == LastIndex(e.Id, "/") IN
    Slice(e.Id, pos + 1, Len(e.Id))

\* a struct field and its xml tag: kind is the field's Go type (string, bool,
\* time, struct, slice of struct, xml.Name), mode is where the tag puts it
Fld(go, xml, kind, mode, omitempty, type) ==
    [go |-> go, xml |-> xml, kind |-> kind, mode |-> mode,
     omitempty |-> omitempty, type |-> type]
\* `xml:"tag"` and `xml:"tag,omitempty"` on a string, time or struct field
El(go, xml, kind, omitempty, type) ==
    Fld(go, xml, kind, "element", omitempty, type)
\* `xml:"tag,attr"` and `xml:"tag,attr,omitempty"`
At(go, xml, kind, omitempty) == Fld(go, xml, kind, "attr", omitempty, "")
\* `xml:",chardata"`
Cd(go) == Fld(go, "", "string", "chardata", FALSE, "")

Types ==
    [Entry |-> <<
        Fld("XMLName", "entry", "name", "xmlname", FALSE, ""),
        At("ETag", "etag", "string", FALSE),
        El("Id", "id", "string", FALSE, ""),
        El("Updated", "updated", "time", FALSE, ""),
        El("Title", "title", "string", FALSE, ""),
        El("Content", "content", "string", FALSE, ""),
        El("Links", "link", "slice", FALSE, "Link"),
        El("Name", "name", "struct", TRUE, "Name"),
        El("InstantMessengers", "im", "slice", FALSE, "InstantMessenger"),
        El("Organization", "organization", "struct", TRUE, "Organization"),
        El("Emails", "email", "slice", FALSE, "Email"),
        El("PhoneNumbers", "phoneNumber", "slice", FALSE, "PhoneNumber"),
        El("StructuredPostalAddresses", "structuredPostalAddress", "slice",
           FALSE, "StructuredPostalAddress"),
        El("ExtendedProperties", "extendedProperty", "slice", FALSE,
           "ExtendedProperty"),
        El("Birthday", "birthday", "struct", TRUE, "Birthday"),
        El("Nickname", "nickname", "string", FALSE, ""),
        El("FileAs", "fileAs", "string", FALSE, ""),
        El("Events", "event", "slice", FALSE, "Event"),
        El("Relations", "relation", "slice", FALSE, "Relation"),
        El("UserDefinedFields", "userDefinedField", "slice", FALSE,
           "UserDefinedField"),
        El("Websites", "website", "slice", FALSE, "Website"),
        El("GroupMembershipInfo", "groupMembershipInfo", "slice", FALSE,
           "GroupMembershipInfo") >>,
     Name |-> <<
        El("FullName", "fullName", "string", TRUE, ""),
        El("NamePrefix", "namePrefix", "string", TRUE, ""),
        El("GivenName", "givenName", "struct", TRUE, "GivenName"),
        El("AdditionalName", "additionalName", "string", TRUE, ""),
        El("FamilyName", "familyName", "struct", TRUE, "FamilyName"),
        El("NameSuffix", "nameSuffix", "string", TRUE, "") >>,
     GivenName |-> <<At("Phonetic", "yomi", "string", TRUE), Cd("Value")>>,
     FamilyName |-> <<At("Phonetic", "yomi", "string", TRUE), Cd("Value")>>,
     Email |-> <<
        At("Address", "address", "string", FALSE),
        At("Primary", "primary", "bool", TRUE),
        At("Label", "label", "string", TRUE),
        At("Rel", "rel", "string", TRUE) >>,
     Event |-> <<
        El("When", "when", "struct", FALSE, "When"),
        At("Label", "label", "string", TRUE),
        At("Rel", "rel", "string", TRUE) >>,
     Birthday |-> <<At("When", "when", "string", TRUE)>>,
     When |-> <<At("StartTime", "startTime", "string", FALSE)>>,
     Relation |-> <<At("Rel", "rel", "string", FALSE), Cd("Value")>>,
     UserDefinedField |-> <<
        At("Key", "key", "string", FALSE),
        At("Value", "value", "string", FALSE) >>,
     Website |-> <<
        At("Rel", "rel", "string", TRUE),
        At("Label", "label", "string", TRUE),
        At("Href", "href", "string", FALSE) >>,
     PhoneNumber |-> <<
        At("Label", "label", "string", TRUE),
        At("Rel", "rel", "string", TRUE),
        At("Uri", "uri", "string", TRUE),
        Cd("Value") >>,
     StructuredPostalAddress |-> <<
        At("Rel", "rel", "string", TRUE),
        At("Primary", "primary", "bool", TRUE),
        At("Label", "label", "string", TRUE),
        El("City", "city", "string", TRUE, ""),
        El("Street", "street", "string", TRUE, ""),
        El("Region", "region", "string", TRUE, ""),
        El("Postcode", "postcode", "string", TRUE, ""),
        El("Country", "country", "string", TRUE, ""),
        El("FormattedAddress", "formattedAddress", "string", TRUE, "") >>,
     InstantMessenger |-> <<
        At("Address", "address", "string", FALSE),
        At("Protocol", "protocol", "string", FALSE),
        At("Rel", "rel", "string", FALSE) >>,
     ExtendedProperty |-> <<
        At("Name", "name", "string", FALSE),
        At("Value", "value", "string", FALSE) >>,
     GroupMembershipInfo |-> <<
        At("Deleted", "deleted", "bool", FALSE),
        At("Href", "href", "string", FALSE) >>,
     Link |-> <<
        At("Rel", "rel", "string", TRUE),
        At("Type", "type", "string", FALSE),
        At("Href", "href", "string", FALSE) >>,
     Organization |-> <<
        At("Rel", "rel", "string", TRUE),
        El("OrgName", "orgName", "string", TRUE, ""),
        El("OrgTitle", "orgTitle", "string", TRUE, "") >>]

\* the field of struct type T with Go name g
FieldOf(T, g) ==
    LET fs == Types[T] IN fs[CHOOSE i \in DOMAIN fs : fs[i].go = g]

\* time.Time values, by their RFC 3339 text
ZeroTime == "0001-01-01T00:00:00Z"
Times == {ZeroTime, "2015-10-01T12:30:00Z"}

\* Go's zero value of struct type T
RECURSIVE Zero(_)
Zero(T) ==
    [g \in {Types[T][i].go : i \in DOMAIN Types[T]} |->
        LET f == FieldOf(T, g) IN
        CASE f.kind = "string" -> ""
          [] f.kind = "bool" -> FALSE
          [] f.kind = "time" -> ZeroTime
          [] f.kind = "slice" -> <<>>
          [] f.kind = "name" -> [Space |-> "", Local |-> ""]
          [] f.kind = "struct" -> Zero(f.type)]

ZeroEntry == Zero("Entry")

Ids == Strings(IdAlphabet, MaxIdLen) \cup {ExampleId}

\* sample field contents: plain text, text that looks like markup, text
\* with quotes and white space, text with a character XML cannot carry
Texts == {"Ann", "<name></name>", " \"b\" & 'c'\t\r\n", "x\fy"}

\* what XMLName holds in an Entry made by the caller, in one decoded from a
\* document without namespaces, and in one decoded from the service's feed
XMLNames ==
    {[Space |-> "", Local |-> ""],
     [Space |-> "", Local |-> "entry"],
     [Space |-> "http://www.w3.org/2005/Atom", Local |-> "entry"]}

\* a value of struct type T with every string field s, every bool true and
\* two items in every slice
RECURSIVE Filled(_, _)
Filled(T, s) ==
    [g \in {Types[T][i].go : i \in DOMAIN Types[T]} |->
        LET f == FieldOf(T, g) IN
        CASE f.kind = "string" -> s
          [] f.kind = "bool" -> TRUE
          [] f.kind = "time" -> "2015-10-01T12:30:00Z"
          [] f.kind = "slice" -> <<Filled(f.type, s), Zero(f.type)>>
          [] f.kind = "name" -> [Space |-> "", Local |-> "entry"]
          [] f.kind = "struct" -> Filled(f.type, s)]

\* the entries handed to GetId, Encode and Decode: every Id, and entries
\* with all fields, one field, or one part of the name or organization set
Entries ==
    {[ZeroEntry EXCEPT !.Id = id] : id \in Ids}
    \cup {Filled("Entry", s) : s \in Texts}
    \cup {[ZeroEntry EXCEPT ![g] = Filled("Entry", s)[g]] :
              g \in DOMAIN ZeroEntry, s \in Texts}
    \cup {[ZeroEntry EXCEPT !.XMLName = n] : n \in XMLNames}
    \cup {[ZeroEntry EXCEPT !.Name.FullName = s] : s \in Texts}
    \cup {[ZeroEntry EXCEPT !.Name.GivenName.Phonetic = s] : s \in Texts}
    \cup {[ZeroEntry EXCEPT !.Organization.OrgName = s] : s \in Texts}
    \cup {[ZeroEntry EXCEPT !.Organization.Rel = s] : s \in Texts}

NoLocalId == [val |-> "", panic |-> FALSE]

\* ------------------------------------------------------- encoding
\* seqs[1] \o seqs[2] \o ... for sequences, and for strings
RECURSIVE Flatten(_)
Flatten(seqs) ==
    IF seqs = <<>> THEN <<>> ELSE Head(seqs) \o Flatten(Tail(seqs))
RECURSIVE Join(_)
Join(strs) ==
    IF strs = <<>> THEN "" ELSE Head(strs) \o Join(Tail(strs))

\* the replacement character U+FFFD, written as a question mark
ReplacementChar == "?"
\* characters outside XML's character range (here: form feed)
InvalidChars == {"\f"}

\* variant: nothing is escaped
EscapeCharRaw(c) == c
\* xml.EscapeText, one character
EscapeChar(c) ==
    CASE c = "\"" -> "&#34;"
      [] c = "'" -> "&#39;"
      [] c = "&" -> "&amp;"
      [] c = "<" -> "&lt;"
      [] c = ">" -> "&gt;"
      [] c = "\t" -> "&#x9;"
      [] c = "\n" -> "&#xA;"
      [] c = "\r" -> "&#xD;"
      [] c \in InvalidChars -> ReplacementChar
      [] OTHER -> c

\* xml.EscapeText
EscapeText(s) == Join([i \in 1..Len(s) |-> EscapeChar(CharAt(s, i - 1))])

\* isEmptyValue: a struct (time.Time too) is never empty
IsEmptyValue(x, kind) ==
    CASE kind = "string" -> x = ""
      [] kind = "bool" -> x = FALSE
      [] kind = "slice" -> Len(x) = 0
      [] OTHER -> FALSE

\* the text of a string, bool or time value
SimpleText(x, kind) ==
    IF kind = "bool" THEN (IF x THEN "true" ELSE "false") ELSE x

\* an element: start tag with attributes, character data, child elements
Element(tag, attrs, text, kids) ==
    [tag |-> tag, attrs |-> attrs, text |-> text, kids |-> kids]

\* marshalValue on a struct of type T written as element tag: the attr
\* fields go into the start tag, then the other fields follow in order,
\* those with omitempty and an empty value left out
RECURSIVE MarshalStruct(_, _, _)
MarshalStruct(v, T, tag) ==
    LET fs == Types[T]
        skip(f) == f.omitempty /\ IsEmptyValue(v[f.go], f.kind)
        attr(f) ==
            IF f.mode = "attr" /\ ~skip(f)
            THEN <<[name |-> f.xml, value |-> SimpleText(v[f.go], f.kind)]>>
            ELSE <<>>
        chardata(f) == IF f.mode = "chardata" THEN v[f.go] ELSE ""
        kids(f) ==
            IF f.mode /= "element" \/ skip(f) THEN <<>>
            ELSE CASE f.kind = "struct" ->
                        <<MarshalStruct(v[f.go], f.type, f.xml)>>
                   [] f.kind = "slice" ->
                        [j \in 1..Len(v[f.go]) |->
                            MarshalStruct(v[f.go][j], f.type, f.xml)]
                   [] OTHER ->
                        <<Element(f.xml, <<>>, SimpleText(v[f.go], f.kind),
                                  <<>>)>>
    IN Element(tag,
               Flatten([i \in 1..Len(fs) |-> attr(fs[i])]),
               Join([i \in 1..Len(fs) |-> chardata(fs[i])]),
               Flatten([i \in 1..Len(fs) |-> kids(fs[i])]))

\* the indent "  " repeated depth times
Indent(depth) == Join([i \in 1..depth |-> "  "])

\* the printer of xml.MarshalIndent(v, "", "  "): every start tag but the
\* first begins a new indented line; an end tag does so only when the
\* element had child elements (writeIndent returns early while indentedIn)
RECURSIVE PrintElement(_, _, _)
PrintElement(el, depth, first) ==
    (IF first THEN "" ELSE "\n" \o Indent(depth))
    \o "<" \o el.tag
    \o Join([i \in 1..Len(el.attrs) |->
                " " \o el.attrs[i].name \o "=\""
                \o EscapeText(el.attrs[i].value) \o "\""])
    \o ">"
    \o EscapeText(el.text)
    \o Join([j \in 1..Len(el.kids) |->
                PrintElement(el.kids[j], depth + 1, FALSE)])
    \o (IF el.kids = <<>> THEN "" ELSE "\n" \o Indent(depth))
    \o "</" \o el.tag \o ">"

\* xml.MarshalIndent(entry, "", "  ")
MarshalIndent(e) == PrintElement(MarshalStruct(e, "Entry", "entry"), 0, TRUE)

Rule(old, new) == [old |-> old, new |-> new]

\* rules = append(rules, "<name></name>", "") and the same for organization
EmptyTagRules ==
    <<Rule("<name></name>", ""),
      Rule("<organization></organization>", "")>>

gdTags ==
    <<"name", "fullName", "namePrefix", "givenName", "additionalName",
      "familyName", "nameSuffix",
      "extendedProperty",
      "organization", "orgName", "orgTitle",
      "email", "im", "phoneNumber",
      "structuredPostalAddress", "formattedAddress", "street", "pobox",
      "neighborhood", "city", "region", "postcode", "country",
      "when">>

gContactTags ==
    <<"groupMembershipInfo", "nickname", "birthday", "fileAs", "event",
      "relation", "userDefinedField", "website", "groupMembershipInfo">>

\* variant: only the start tags get the prefix
TagRulesStartOnly(tag, ns) ==
    <<Rule("<" \o tag \o " ", "<" \o ns \o ":" \o tag \o " "),
      Rule("<" \o tag \o ">", "<" \o ns \o ":" \o tag \o ">")>>
\* "<"+tag+" ", "<ns:"+tag+" ", "<"+tag+">", "<ns:"+tag+">",
\* "</"+tag+">", "</ns:"+tag+">"
TagRules(tag, ns) ==
    <<Rule("<" \o tag \o " ", "<" \o ns \o ":" \o tag \o " "),
      Rule("<" \o tag \o ">", "<" \o ns \o ":" \o tag \o ">"),
      Rule("</" \o tag \o ">", "</" \o ns \o ":" \o tag \o ">")>>

\* the arguments of strings.NewReplacer, as (old, new) pairs in order
Rules ==
    EmptyTagRules
    \o Flatten([i \in 1..Len(gdTags) |-> TagRules(gdTags[i], "gd")])
    \o Flatten([i \in 1..Len(gContactTags) |->
                   TagRules(gContactTags[i], "gContact")])

\* old occurs in s at position i
HasAt(s, i, old) ==
    i + Len(old) <= Len(s) /\ SubSeq(s, i + 1, i + Len(old)) = old

\* the rule Replace applies at position i of s: of the rules whose old
\* string occurs there the one given first; 0 when there is none
MatchAt(s, i, rules) ==
    LET M == {k \in 1..Len(rules) : HasAt(s, i, rules[k].old)} IN
    IF M = {} THEN 0 ELSE SetMin(M)

\* Replacer.Replace on s from position i on: the occurrences are replaced
\* from left to right, without overlap
RECURSIVE ReplaceFrom(_, _, _)
ReplaceFrom(s, i, rules) ==
    LET heads == {CharAt(rules[k].old, 0) : k \in 1..Len(rules)}
        C == {j \in i..(Len(s) - 1) : CharAt(s, j) \in heads}
    IN IF C = {} THEN SubSeq(s, i + 1, Len(s))
       ELSE LET j == SetMin(C)
                k == MatchAt(s, j, rules)
            IN IF k = 0
               THEN SubSeq(s, i + 1, j + 1) \o ReplaceFrom(s, j + 1, rules)
               ELSE SubSeq(s, i + 1, j) \o rules[k].new
                    \o ReplaceFrom(s, j + Len(rules[k].old), rules)

\* replacer := strings.NewReplacer(rules...); replacer.Replace(original)
fixXml(original) == ReplaceFrom(original, 0, Rules)

\* xmlString := fixXml(string(xmlBytes)), the body saveContactRaw sends
Encode(e) == fixXml(MarshalIndent(e))

\* ------------------------------------------------------- decoding
\* the first position >= i of s that holds one of chars, -1 when none does
FindFrom(s, i, chars) ==
    LET P == {j \in i..(Len(s) - 1) : CharAt(s, j) \in chars} IN
    IF P = {} THEN -1 ELSE SetMin(P)

\* the character an entity stands for ("" for one the decoder rejects)
Entity(name) ==
    CASE name = "lt" -> "<"
      [] name = "gt" -> ">"
      [] name = "amp" -> "&"
      [] name = "apos" -> "'"
      [] name = "quot" -> "\""
      [] name = "#34" -> "\""
      [] name = "#39" -> "'"
      [] name = "#x9" -> "\t"
      [] name = "#xA" -> "\n"
      [] name = "#xD" -> "\r"
      [] OTHER -> ""

Failed == [ok |-> FALSE]

\* the text that s holds from position i on, its entities replaced
RECURSIVE Unescape(_, _)
Unescape(s, i) ==
    LET amp == FindFrom(s, i, {"&"}) IN
    IF amp = -1 THEN [ok |-> TRUE, val |-> SubSeq(s, i + 1, Len(s))]
    ELSE LET semi == FindFrom(s, amp, {";"})
             c == Entity(SubSeq(s, amp + 2, semi))
         IN IF semi = -1 \/ c = "" THEN Failed
            ELSE LET rest == Unescape(s, semi + 1) IN
                 IF ~rest.ok THEN Failed
                 ELSE [ok |-> TRUE,
                       val |-> SubSeq(s, i + 1, amp) \o c \o rest.val]

\* the attributes  name="value"  from position i up to the closing ">"
RECURSIVE ParseAttrs(_, _)
ParseAttrs(s, i) ==
    IF i >= Len(s) THEN Failed
    ELSE IF CharAt(s, i) = ">"
    THEN [ok |-> TRUE, attrs |-> <<>>, next |-> i + 1]
    ELSE IF CharAt(s, i) /= " " THEN Failed
    ELSE LET eq == FindFrom(s, i, {"=", ">"})
             open == eq + 1
             close == FindFrom(s, open + 1, {"\""})
         IN IF eq = -1 \/ close = -1 \/ CharAt(s, eq) /= "="
               \/ CharAt(s, open) /= "\""
            THEN Failed
            ELSE LET v == Unescape(SubSeq(s, open + 2, close), 0)
                     rest == ParseAttrs(s, close + 1)
                 IN IF ~v.ok \/ ~rest.ok THEN Failed
                    ELSE [ok |-> TRUE,
                          attrs |-> <<[name |-> SubSeq(s, i + 2, eq),
                                       value |-> v.val]>> \o rest.attrs,
                          next |-> rest.next]

\* the element that starts with the "<" at position i, and the content of
\* an element tag from position i up to its end tag
RECURSIVE ParseElement(_, _), ParseContent(_, _, _)
ParseElement(s, i) ==
    LET e == FindFrom(s, i, {" ", ">"})
        tag == SubSeq(s, i + 2, e)
    IN IF e = -1 \/ tag = "" \/ CharAt(tag, 0) = "/" THEN Failed
       ELSE LET a == ParseAttrs(s, e) IN
            IF ~a.ok THEN Failed
            ELSE LET c == ParseContent(s, a.next, tag) IN
                 IF ~c.ok THEN Failed
                 ELSE [ok |-> TRUE,
                       el |-> Element(tag, a.attrs, c.text, c.kids),
                       next |-> c.next]

ParseContent(s, i, tag) ==
    LET lt == FindFrom(s, i, {"<"})
        text == Unescape(SubSeq(s, i + 1, lt), 0)
    IN IF lt = -1 \/ ~text.ok THEN Failed
       ELSE IF lt + 1 < Len(s) /\ CharAt(s, lt + 1) = "/"
       THEN IF HasAt(s, lt, "</" \o tag \o ">")
            THEN [ok |-> TRUE, text |-> text.val, kids |-> <<>>,
                  next |-> lt + Len(tag) + 3]
            ELSE Failed
       ELSE LET kid == ParseElement(s, lt) IN
            IF ~kid.ok THEN Failed
            ELSE LET rest == ParseContent(s, kid.next, tag) IN
                 IF ~rest.ok THEN Failed
                 ELSE [ok |-> TRUE, text |-> text.val \o rest.text,
                       kids |-> <<kid.el>> \o rest.kids, next |-> rest.next]

\* the root element of document s; the decoder rejects a document that
\* holds a character outside XML's range
ParseDocument(s) ==
    LET lt == FindFrom(s, 0, {"<"}) IN
    IF lt = -1 \/ \E c \in InvalidChars : Positions(s, c) /= {} THEN Failed
    ELSE ParseElement(s, lt)

\* prefix and local part of a name; a prefix no xmlns attribute declares
\* stays the name's Space
Prefix(n) ==
    IF Positions(n, ":") = {} THEN ""
    ELSE SubSeq(n, 1, SetMin(Positions(n, ":")))
Local(n) ==
    IF Positions(n, ":") = {} THEN n
    ELSE SubSeq(n, SetMin(Positions(n, ":")) + 2, Len(n))

\* strconv.ParseBool
TrueTexts == {"1", "t", "T", "TRUE", "true", "True"}
FalseTexts == {"0", "f", "F", "FALSE", "false", "False"}

\* copyValue: the text of an attribute or element into a field of the kind
CopyValue(text, kind) ==
    CASE kind = "bool" ->
            IF text \in TrueTexts THEN [ok |-> TRUE, val |-> TRUE]
            ELSE IF text \in FalseTexts THEN [ok |-> TRUE, val |-> FALSE]
            ELSE Failed
      [] kind = "time" ->
            IF text \in Times THEN [ok |-> TRUE, val |-> text] ELSE Failed
      [] OTHER -> [ok |-> TRUE, val |-> text]

\* (value, nil) or (nil, error) from a result of unmarshal
ErrorOr(u) ==
    IF u.ok THEN [val |-> u.val, err |-> NoErr]
    ELSE [val |-> "none", err |-> ErrXML]

\* the attributes of el named as field f, and its child elements whose
\* local name is f's tag, whatever their namespace (the tags name none)
AttrsFor(el, f) == {i \in DOMAIN el.attrs : el.attrs[i].name = f.xml}
KidsFor(el, f) == {j \in DOMAIN el.kids : Local(el.kids[j].tag) = f.xml}

\* the members of a set of positions in increasing order
RECURSIVE Ascending(_)
Ascending(P) ==
    IF P = {} THEN <<>> ELSE <<SetMin(P)>> \o Ascending(P \ {SetMin(P)})

\* the results R of the parts put together: a failure if one part failed
AllOf(R) ==
    IF \E g \in DOMAIN R : ~R[g].ok THEN Failed
    ELSE [ok |-> TRUE, val |-> [g \in DOMAIN R |-> R[g].val]]

\* unmarshal of element el into a zero struct of type T, field by field:
\* XMLName takes the element's name, an attr field the attribute of its
\* name, a chardata field the element's character data, every other field
\* the child elements of its tag; a repeated attribute or child overwrites,
\* a slice appends
RECURSIVE UnmarshalStruct(_, _), UnmarshalField(_, _, _)
UnmarshalStruct(el, T) ==
    AllOf([g \in {Types[T][i].go : i \in DOMAIN Types[T]} |->
              UnmarshalField(el, FieldOf(T, g), Zero(T)[g])])

UnmarshalField(el, f, zero) ==
    CASE f.mode = "xmlname" ->
            [ok |-> TRUE,
             val |-> [Space |-> Prefix(el.tag), Local |-> Local(el.tag)]]
      [] f.mode = "attr" ->
            IF AttrsFor(el, f) = {} THEN [ok |-> TRUE, val |-> zero]
            ELSE CopyValue(el.attrs[SetMax(AttrsFor(el, f))].value, f.kind)
      [] f.mode = "chardata" -> [ok |-> TRUE, val |-> el.text]
      [] f.mode = "element" /\ f.kind = "slice" ->
            AllOf([n \in 1..Cardinality(KidsFor(el, f)) |->
                      UnmarshalStruct(el.kids[Ascending(KidsFor(el, f))[n]],
                                      f.type)])
      [] f.mode = "element" /\ f.kind = "struct" ->
            IF KidsFor(el, f) = {} THEN [ok |-> TRUE, val |-> zero]
            ELSE UnmarshalStruct(el.kids[SetMax(KidsFor(el, f))], f.type)
      [] OTHER ->
            IF KidsFor(el, f) = {} THEN [ok |-> TRUE, val |-> zero]
            ELSE CopyValue(el.kids[SetMax(KidsFor(el, f))].text, f.kind)

\* unmarshal of a parsed document into &Entry{}: the root must be named
\* entry, as the tag of XMLName says
UnmarshalRoot(doc) ==
    IF ~doc.ok \/ Local(doc.el.tag) /= "entry"
    THEN [val |-> "none", err |-> ErrXML]
    ELSE ErrorOr(UnmarshalStruct(doc.el, "Entry"))

\* entry := &Entry{}; xml.Unmarshal(data, entry)
DecodeEntry(data) ==
    CHOOSE r \in {UnmarshalRoot(doc) : doc \in {ParseDocument(data)}} : TRUE

\* ------------------------------------------------------- state
VARIABLES
    store,        \* the Credential Store's record (the auth file)
    store0,       \* the record the store held initially
    op,           \* per caller: the public operation in progress
    input,        \* per caller: its arguments
    cpc,          \* per caller: position in the client operation
    accessToken,  \* per caller: the operation's local accessToken
    attempts,     \* per caller: the wire attempts made by the operation
    renews,       \* per caller: AuthManager.Renew calls made by the operation
    result,       \* per caller: what the operation returned
    afn,          \* per caller: the Auth Manager method in progress
    apc,          \* per caller: position in it
    authDetails,  \* per caller: the method's local authDetails
    astore,       \* per caller: the store when the method was entered
    loaded,       \* per caller: what Load gave the method
    retrieved,    \* per caller: the Retrieve calls of the method
    saved,        \* per caller: the Save calls of the method
    aret,         \* per caller: what the method returned
    order,        \* the callers whose method has exchanged, oldest exchange first
    prev,         \* per caller: the outcome of its previous method, when noted
    subject,      \* codec: the Entry in hand
    kpc,          \* codec: what has been done with it
    localId,      \* codec: what GetId returned
    xmlString,    \* codec: the document Encode produced
    roundTrip     \* codec: what decoding that document returned

clientVars == <<op, input, cpc, accessToken, attempts, renews, result>>
authVars == <<afn, apc, authDetails, astore, loaded, retrieved, saved, aret, order>>
codecVars == <<subject, kpc, localId, xmlString, roundTrip>>
vars == <<store, store0, prev, clientVars, authVars, codecVars>>

NoRec == [RefreshToken |-> -1, AccessToken |-> -1]
NoLoad == [ok |-> FALSE, rec |-> NoRec, done |-> FALSE]
NoRet == [token |-> -1, err |-> NoErr]
NoDecoded == [val |-> "none", err |-> NoErr]
NoPrev == [fn |-> "none", ret |-> NoRet, exchanged |-> FALSE, saved |-> FALSE,
           before |-> NoRec]

\* no caller has called anything yet
Idle ==
    /\ op = [p \in Procs |-> "none"]
    /\ input = [p \in Procs |-> DefaultInput]
    /\ cpc = [p \in Procs |-> "idle"]
    /\ accessToken = [p \in Procs |-> EmptyString]
    /\ attempts = [p \in Procs |-> <<>>]
    /\ renews = [p \in Procs |-> 0]
    /\ result = [p \in Procs |-> NoResult]
    /\ afn = [p \in Procs |-> "none"]
    /\ apc = [p \in Procs |-> "none"]
    /\ authDetails = [p \in Procs |-> NoRec]
    /\ astore = [p \in Procs |-> NoRec]
    /\ loaded = [p \in Procs |-> NoLoad]
    /\ retrieved = [p \in Procs |-> <<>>]
    /\ saved = [p \in Procs |-> <<>>]
    /\ aret = [p \in Procs |-> NoRet]
    /\ order = <<>>
    /\ prev = [p \in Procs |-> NoPrev]

Init ==
    /\ store \in AuthDetails
    /\ store0 = store
    /\ Idle
    /\ subject = "none"
    /\ kpc = "off"
    /\ localId = NoLocalId
    /\ xmlString = ""
    /\ roundTrip = NoDecoded

\* entering AccessToken or Renew: nothing loaded, exchanged or saved yet
EnterAuth(p, fn) ==
    /\ afn' = [afn EXCEPT ![p] = fn]
    /\ apc' = [apc EXCEPT ![p] = "load"]
    /\ authDetails' = [authDetails EXCEPT ![p] = NoRec]
    /\ astore' = [astore EXCEPT ![p] = store]
    /\ loaded' = [loaded EXCEPT ![p] = NoLoad]
    /\ retrieved' = [retrieved EXCEPT ![p] = <<>>]
    /\ saved' = [saved EXCEPT ![p] = <<>>]
    /\ aret' = [aret EXCEPT ![p] = NoRet]
    /\ order' = SelectSeq(order, LAMBDA q : q /= p)

\* AccessToken or Renew returns (token, err) to its caller: the public
\* operation goes on with the token, or returns the error
AuthReturn(p, token, err) ==
    /\ aret' = [aret EXCEPT ![p] = [token |-> token, err |-> err]]
    /\ apc' = [apc EXCEPT ![p] = "returned"]
    /\ IF op[p] \in AuthOps
       THEN /\ cpc' = [cpc EXCEPT ![p] = "done"]
            /\ result' = [result EXCEPT ![p] =
                   [val |-> token, mime |-> "", err |-> err, panic |-> FALSE]]
            /\ UNCHANGED accessToken
       ELSE IF err /= NoErr
       THEN /\ cpc' = [cpc EXCEPT ![p] = "done"]
            /\ result' = [result EXCEPT ![p] =
                   OpFail(IF cpc[p] = "renew"
                          THEN RenewFailure(attempts[p][1].r.err, err)
                          ELSE err)]
            /\ UNCHANGED accessToken
       ELSE /\ cpc' = [cpc EXCEPT ![p] =
                   IF cpc[p] = "access" THEN "attempt1" ELSE "attempt2"]
            /\ accessToken' = [accessToken EXCEPT ![p] = AssignToken(@, token)]
            /\ UNCHANGED result
    /\ UNCHANGED <<op, input, attempts, renews>>

\* a caller invokes a public operation: AccessToken, Renew, or one of the
\* Directory Client's, which starts with c.AuthManager.AccessToken()
Call(p, o, in) ==
    /\ cpc[p] = "idle"
    /\ op' = [op EXCEPT ![p] = o]
    /\ input' = [input EXCEPT ![p] = in]
    /\ cpc' = [cpc EXCEPT ![p] = IF o \in AuthOps THEN "auth" ELSE "access"]
    /\ accessToken' = [accessToken EXCEPT ![p] = EmptyString]
    /\ attempts' = [attempts EXCEPT ![p] = <<>>]
    /\ renews' = [renews EXCEPT ![p] = 0]
    /\ result' = [result EXCEPT ![p] = NoResult]
    /\ EnterAuth(p, IF o = "Renew" THEN "Renew" ELSE "AccessToken")
    /\ UNCHANGED <<store, store0, prev, codecVars>>

\* variant: a caller waits while another one is between its Load and its Save
MayLoadExclusive(p) ==
    /\ apc[p] = "load"
    /\ \A q \in Procs \ {p} : apc[q] \notin {"exchange", "save"}
\* AccessToken and Renew take no lock: a caller that has entered loads at once
MayLoad(p) == apc[p] = "load"

\* variant: Load hands out the store's own record, so that what the caller
\* writes to it is stored at once
HeldAfterLoadShared(held, copy) == copy
\* FileAuthStorage.Load decodes the file into a new AuthDetails: what the
\* caller writes to that copy leaves the store as it is
HeldAfterLoad(held, copy) == held

\* m.AuthStorage.Load() and what follows it up to the next I/O
Load(p, ok) ==
    /\ MayLoad(p)
    /\ loaded' = [loaded EXCEPT ![p] =
           [ok |-> ok, rec |-> IF ok THEN store ELSE NoRec, done |-> TRUE]]
    /\ IF ~ok
       THEN /\ AuthReturn(p, EmptyString, ErrLoad)
            /\ UNCHANGED authDetails
       ELSE IF ConsultsCache(afn[p]) /\ AccessTokenCached(store)
       THEN /\ AuthReturn(p, store.AccessToken, NoErr)
            /\ authDetails' = [authDetails EXCEPT ![p] = store]
       ELSE LET ad == IF afn[p] = "Renew" THEN ClearAccessToken(store)
                      ELSE store IN
            /\ authDetails' = [authDetails EXCEPT ![p] = ad]
            /\ IF RefreshTokenMissing(ad)
               THEN AuthReturn(p, EmptyString, ErrNoRefreshToken)
               ELSE /\ apc' = [apc EXCEPT ![p] = "exchange"]
                    /\ UNCHANGED <<clientVars, aret>>
    /\ store' = IF ok /\ afn[p] = "Renew"
                THEN HeldAfterLoad(store, ClearAccessToken(store)) ELSE store
    /\ UNCHANGED <<store0, prev, codecVars, afn, astore, retrieved, saved, order>>

\* m.AccessTokenRetriever.Retrieve(authDetails.RefreshToken)
Exchange(p, post) ==
    /\ apc[p] = "exchange"
    /\ LET r == Retrieve(post) IN
       /\ retrieved' = [retrieved EXCEPT ![p] =
              Append(@, [refreshToken |-> authDetails[p].RefreshToken,
                         token |-> r.token, err |-> r.err])]
       /\ IF r.err /= NoErr
          THEN /\ AuthReturn(p, ExchangeFailure(r).token, ExchangeFailure(r).err)
               /\ UNCHANGED authDetails
          ELSE /\ authDetails' = [authDetails EXCEPT ![p] =
                      SetAccessToken(@, r.token)]
               /\ apc' = [apc EXCEPT ![p] = "save"]
               /\ UNCHANGED <<clientVars, aret>>
       /\ order' = IF r.err = NoErr THEN Append(order, p) ELSE order
    /\ UNCHANGED <<store, store0, prev, codecVars, afn, astore, loaded, saved>>

\* m.AuthStorage.Save(authDetails), and the return of the exchanged token
StorageSave(p, ok) ==
    /\ apc[p] = "save"
    /\ saved' = [saved EXCEPT ![p] = Append(@, [rec |-> authDetails[p], ok |-> ok])]
    /\ store' = IF ok THEN authDetails[p] ELSE store
    /\ LET accessTok == retrieved[p][Len(retrieved[p])].token
           r == ReturnAfterSave(accessTok, IF ok THEN NoErr ELSE ErrSave) IN
       AuthReturn(p, r.token, r.err)
    /\ UNCHANGED <<store0, prev, codecVars, afn, authDetails, astore, loaded, retrieved, order>>

\* an entry of the attempts log: the token and the caller's arguments the
\* attempt was made with, what the transport did, what the attempt returned
AttemptRec(token, in, t, r) == [token |-> token, in |-> in, t |-> t, r |-> r]

\* the first attempt, and on its failure the call of c.AuthManager.Renew()
FirstAttempt(p, t) ==
    /\ cpc[p] = "attempt1"
    /\ LET r == Attempt(op[p], input[p], accessToken[p], t) IN
       /\ attempts' = [attempts EXCEPT ![p] = Append(@, AttemptRec(accessToken[p], input[p], t, r))]
       /\ IF ~r.panic /\ HasRetryBlock(op[p]) /\ NeedsRenew(r.err)
          THEN /\ cpc' = [cpc EXCEPT ![p] = "renew"]
               /\ renews' = [renews EXCEPT ![p] = @ + 1]
               /\ EnterAuth(p, "Renew")
               /\ UNCHANGED result
          ELSE /\ cpc' = [cpc EXCEPT ![p] = "done"]
               /\ result' = [result EXCEPT ![p] = OpReturn(op[p], r)]
               /\ UNCHANGED <<renews, authVars>>
    /\ UNCHANGED <<store, store0, prev, codecVars, op, input, accessToken>>

\* the retry with the renewed token; its outcome is the operation's
Retry(p, t) ==
    /\ cpc[p] = "attempt2"
    /\ LET r == Attempt(op[p], input[p], accessToken[p], t)
           first == attempts[p][1].r IN
       /\ attempts' = [attempts EXCEPT ![p] = Append(@, AttemptRec(accessToken[p], input[p], t, r))]
       /\ cpc' = [cpc EXCEPT ![p] = "done"]
       /\ result' = [result EXCEPT ![p] =
              OpReturn(op[p], AfterRetry(first, r))]
    /\ UNCHANGED <<store, store0, prev, codecVars, op, input, accessToken, renews, authVars>>

\* the caller takes the result and is free to call again
Return(p) ==
    /\ cpc[p] = "done"
    /\ cpc' = [cpc EXCEPT ![p] = "idle"]
    /\ UNCHANGED <<store, store0, prev, codecVars, op, input, accessToken, attempts, renews,
                   result, authVars>>

\* the caller of AccessToken or Renew takes the result and keeps a note of
\* the call: the method, what it returned, whether it exchanged, whether its
\* Save succeeded, and the store it started from
ReturnNoted(p) ==
    /\ cpc[p] = "done" /\ op[p] \in AuthOps
    /\ cpc' = [cpc EXCEPT ![p] = "idle"]
    /\ prev' = [prev EXCEPT ![p] =
           [fn |-> afn[p], ret |-> aret[p],
            exchanged |-> \E i \in 1..Len(retrieved[p]) :
                              retrieved[p][i].err = NoErr,
            saved |-> \E i \in 1..Len(saved[p]) : saved[p][i].ok,
            before |-> astore[p]]]
    /\ UNCHANGED <<store, store0, codecVars, op, input, accessToken, attempts,
                   renews, result, authVars>>

\* the Auth Manager's own steps
AuthStep(p) ==
    \/ \E ok \in BOOLEAN : Load(p, ok)
    \/ \E post \in PostOutcomes : Exchange(p, post)
    \/ \E ok \in BOOLEAN : StorageSave(p, ok)

\* a caller of the Directory Client
ClientStep(p) ==
    \/ \E o \in ClientOps : \E in \in Inputs(o) : Call(p, o, in)
    \/ AuthStep(p)
    \/ \E t \in TransportOutcomes : FirstAttempt(p, t)
    \/ \E t \in TransportOutcomes : Retry(p, t)
    \/ Return(p)

\* one caller using the Directory Client
Next == \E p \in SeqProcs : ClientStep(p)

Spec == Init /\ [][Next]_vars

\* a caller of the Auth Manager itself
ManagerStep(p) ==
    \/ \E o \in AuthOps : Call(p, o, DefaultInput)
    \/ AuthStep(p)
    \/ Return(p)

\* one caller using the Auth Manager
NextAuth == \E p \in SeqProcs : ManagerStep(p)

SpecAuth == Init /\ [][NextAuth]_vars

\* one call of a public operation of either client, from any store content
ClientsStep(p) ==
    \/ \E o \in ClientOps \cup SimpleOps : \E in \in Inputs(o) : Call(p, o, in)
    \/ AuthStep(p)
    \/ \E t \in TransportOutcomes : FirstAttempt(p, t)
    \/ \E t \in TransportOutcomes : Retry(p, t)

NextClients == \E p \in SeqProcs : ClientsStep(p)

SpecClients == Init /\ [][NextClients]_vars

\* two callers using the same Auth Manager, their steps interleaved at the
\* store and exchanger calls
NextConc == \E p \in Procs : ManagerStep(p)

SpecConc == Init /\ [][NextConc]_vars

\* one caller making Auth Manager calls one after the other, each call's
\* outcome noted for the next
NextSeq ==
    \E p \in SeqProcs :
        \/ \E o \in AuthOps : Call(p, o, DefaultInput)
        \/ AuthStep(p)
        \/ ReturnNoted(p)

SpecSeq == Init /\ [][NextSeq]_vars

\* ------------------------------------------------------- the codec alone
\* an Entry in hand; nobody uses the client or the Auth Manager
InitCodec ==
    /\ store = [RefreshToken |-> EmptyString, AccessToken |-> EmptyString]
    /\ store0 = store
    /\ Idle
    /\ subject \in Entries
    /\ kpc = "new"
    /\ localId = NoLocalId
    /\ xmlString = ""
    /\ roundTrip = NoDecoded

\* entry.GetId()
GetIdStep ==
    /\ kpc = "new"
    /\ localId' = GetId(subject)
    /\ kpc' = "id"
    /\ UNCHANGED <<store, store0, prev, clientVars, authVars, subject, xmlString,
                   roundTrip>>

\* xmlBytes, err := xml.MarshalIndent(entry, "", "  ");
\* xmlString := fixXml(string(xmlBytes))
EncodeStep ==
    /\ kpc = "new"
    /\ xmlString' = Encode(subject)
    /\ kpc' = "encoded"
    /\ UNCHANGED <<store, store0, prev, clientVars, authVars, subject, localId,
                   roundTrip>>

\* unmarshalEntry on the document
DecodeStep ==
    /\ kpc = "encoded"
    /\ roundTrip' = DecodeEntry(xmlString)
    /\ kpc' = "decoded"
    /\ UNCHANGED <<store, store0, prev, clientVars, authVars, subject, localId,
                   xmlString>>

NextCodec == GetIdStep \/ EncodeStep \/ DecodeStep

SpecCodec == InitCodec /\ [][NextCodec]_vars

\* ======================================================= properties
\* the operations the retry policy is stated for
RetryingOps ==
    {"FetchFeedRaw", "FetchFeed", "FetchContactRaw", "FetchContact",
     "FetchGroupsRaw", "FetchGroups", "Save", "SaveRaw"}

\* the transport fails a request: no response, a response of status >= 300, or
\* a body that cannot be read
TransportFails(t) ==
    t.kind = "neterr" \/ t.status >= 300 \/ ~t.readOK

\* the error a failing transport outcome stands for
TransportErr(t) ==
    IF t.kind = "neterr" THEN ErrDo
    ELSE IF t.status >= 300 THEN StatusErr(t.status) ELSE ErrRead

\* the transport succeeds for operation o: a response of status < 300 whose
\* body is read and is the document o asks for (any bytes for a Raw operation)
TransportServes(o, t) ==
    /\ t.kind = "response" /\ t.status < 300 /\ t.readOK
    /\ o \in {"FetchFeed", "FetchGroups"} => t.body = "feed"
    /\ o \in {"FetchContact", "Save"} => t.body = "entry"

\* a request went on the wire in attempt a
Sent(a) == a.r.req /= NoRequest

\* the operation of p has returned
Returned(p) == cpc[p] = "done"

\* p's operation made two attempts that reached the transport, the first
\* failed there
FailedThenRetried(p) ==
    /\ Returned(p) /\ op[p] \in RetryingOps
    /\ Len(attempts[p]) = 2
    /\ Sent(attempts[p][1]) /\ Sent(attempts[p][2])
    /\ TransportFails(attempts[p][1].t)

\* C1: every public fetch/save operation whose first attempt the transport
\* fails and whose second attempt the transport serves returns success, and
\* Renew was invoked exactly once during the call.
C1_RetrySucceeds ==
    \A p \in Procs :
        (FailedThenRetried(p) /\ TransportServes(op[p], attempts[p][2].t))
        => /\ result[p].err = NoErr
           /\ ~result[p].panic
           /\ result[p].val /= NoData
           /\ renews[p] = 1

C1_Witness ==
    \E p \in Procs :
        /\ FailedThenRetried(p) /\ TransportServes(op[p], attempts[p][2].t)
        /\ op[p] = "Save"
        /\ attempts[p][2].t.status = 299
        /\ result[p].val = "Entry"

\* C2: no call makes more than two attempts or more than one Renew, and an
\* operation whose first attempt and retry the transport both fails returns
\* the retry's failure after exactly one Renew.
C2_RetryFailsOnce ==
    \A p \in Procs :
        /\ Len(attempts[p]) <= 2
        /\ renews[p] <= 1
        /\ (FailedThenRetried(p) /\ TransportFails(attempts[p][2].t))
           => /\ result[p].err = TransportErr(attempts[p][2].t)
              /\ result[p].val = NoData
              /\ renews[p] = 1

C2_Witness ==
    \E p \in Procs :
        /\ FailedThenRetried(p) /\ TransportFails(attempts[p][2].t)
        /\ attempts[p][1].t.status = 401
        /\ attempts[p][2].t.status = 500
        /\ result[p].err = StatusErr(500)

\* C3 (as claimed): FetchContactImage whose first attempt fails calls Renew
\* and retries exactly once.
C3_ImageRetries ==
    \A p \in Procs :
        (/\ Returned(p) /\ op[p] = "FetchContactImage"
         /\ Len(attempts[p]) >= 1
         /\ attempts[p][1].r.err /= NoErr)
        => renews[p] = 1

\* the first attempt of p's operation failed with transport outcome kind k
FirstFailedWith(p, t) ==
    /\ op[p] \in RetryingOps
    /\ Len(attempts[p]) >= 1
    /\ Sent(attempts[p][1])
    /\ attempts[p][1].t = t

\* C4: a first attempt that fails in any way (no response, status 401, any
\* other status >= 300) leads to exactly one Renew and, once Renew has
\* returned a token, to exactly one retry of the same request; there is no
\* retry without a Renew.
C4_AnyFailureRenews ==
    \A p \in Procs :
        /\ \A t \in TransportOutcomes :
              (FirstFailedWith(p, t) /\ (t.kind = "neterr" \/ t.status >= 300))
              => /\ renews[p] = 1
                 /\ (Returned(p) /\ aret[p].err = NoErr)
                    => /\ Len(attempts[p]) = 2
                       /\ attempts[p][2].token = aret[p].token
                       /\ attempts[p][2].r.req.method
                            = attempts[p][1].r.req.method
        /\ Len(attempts[p]) = 2 => renews[p] = 1

C4_Witness ==
    \E p \in Procs :
        /\ Returned(p) /\ op[p] = "FetchFeedRaw"
        /\ Len(attempts[p]) = 2
        /\ attempts[p][1].t.status = 500
        /\ renews[p] = 1
        /\ aret[p].err = NoErr

\* ------------------------------------------------------- Auth Manager
\* AccessToken or Renew (fn) has returned to p after a successful Load
AuthReturned(p, fn) ==
    /\ apc[p] = "returned" /\ afn[p] = fn
    /\ loaded[p].ok

\* C5: AccessToken on a loaded record with a non-empty access token returns
\* that token, exchanges nothing and saves nothing.
C5_CachedTokenReturned ==
    \A p \in Procs :
        (AuthReturned(p, "AccessToken")
         /\ loaded[p].rec.AccessToken /= EmptyString)
        => /\ aret[p] = [token |-> loaded[p].rec.AccessToken, err |-> NoErr]
           /\ retrieved[p] = <<>>
           /\ saved[p] = <<>>
           /\ store = astore[p]

C5_Witness ==
    \E p \in Procs :
        /\ AuthReturned(p, "AccessToken") /\ op[p] = "AccessToken"
        /\ loaded[p].rec.AccessToken = 2
        /\ aret[p].token = 2

\* C6: AccessToken on a loaded record with an empty access token and a
\* non-empty refresh token calls Retrieve exactly once, with that refresh
\* token; when Retrieve succeeds its token is returned, and when Save succeeds
\* the store holds that token as access token.
C6_ExchangeOnceAndStore ==
    \A p \in Procs :
        (/\ AuthReturned(p, "AccessToken")
         /\ loaded[p].rec.AccessToken = EmptyString
         /\ loaded[p].rec.RefreshToken /= EmptyString)
        => /\ Len(retrieved[p]) = 1
           /\ retrieved[p][1].refreshToken = loaded[p].rec.RefreshToken
           /\ retrieved[p][1].err = NoErr
              => /\ aret[p] = [token |-> retrieved[p][1].token, err |-> NoErr]
                 /\ Len(saved[p]) = 1
                 /\ saved[p][1].ok
                    => store = [RefreshToken |-> loaded[p].rec.RefreshToken,
                                AccessToken |-> retrieved[p][1].token]

C6_Witness ==
    \E p \in Procs :
        /\ AuthReturned(p, "AccessToken") /\ op[p] = "AccessToken"
        /\ loaded[p].rec.AccessToken = EmptyString
        /\ Len(retrieved[p]) = 1 /\ retrieved[p][1].token = 1
        /\ Len(saved[p]) = 1 /\ saved[p][1].ok
        /\ store.AccessToken = 1

\* C7 (as claimed): AccessToken on a loaded record with an empty refresh token
\* fails with the missing-refresh-token error and calls no Retrieve, whatever
\* the record's access token.
C7_NoRefreshAlwaysFails ==
    \A p \in Procs :
        (AuthReturned(p, "AccessToken")
         /\ loaded[p].rec.RefreshToken = EmptyString)
        => /\ aret[p].err = ErrNoRefreshToken
           /\ retrieved[p] = <<>>

\* C7 (amended): AccessToken on a loaded record with an empty refresh token
\* and an empty access token fails with the missing-refresh-token error and
\* calls no Retrieve.
C7_NoRefreshNoCacheFails ==
    \A p \in Procs :
        (/\ AuthReturned(p, "AccessToken")
         /\ loaded[p].rec.RefreshToken = EmptyString
         /\ loaded[p].rec.AccessToken = EmptyString)
        => /\ aret[p] = [token |-> EmptyString, err |-> ErrNoRefreshToken]
           /\ retrieved[p] = <<>>
           /\ saved[p] = <<>>

C7_Witness ==
    \E p \in Procs :
        /\ AuthReturned(p, "AccessToken") /\ op[p] = "AccessToken"
        /\ loaded[p].rec = [RefreshToken |-> EmptyString,
                            AccessToken |-> EmptyString]
        /\ aret[p].err = ErrNoRefreshToken

\* C8: Renew on a loaded record with a non-empty refresh token calls Retrieve
\* exactly once, whether or not an access token was cached, and when Retrieve
\* succeeds it returns Retrieve's token.
C8_RenewAlwaysExchanges ==
    \A p \in Procs :
        (AuthReturned(p, "Renew")
         /\ loaded[p].rec.RefreshToken /= EmptyString)
        => /\ Len(retrieved[p]) = 1
           /\ retrieved[p][1].refreshToken = loaded[p].rec.RefreshToken
           /\ retrieved[p][1].err = NoErr
              => aret[p] = [token |-> retrieved[p][1].token, err |-> NoErr]

C8_Witness ==
    \E p \in Procs :
        /\ AuthReturned(p, "Renew") /\ op[p] = "Renew"
        /\ loaded[p].rec.AccessToken = 1
        /\ Len(retrieved[p]) = 1 /\ retrieved[p][1].token = 2
        /\ aret[p] = [token |-> 2, err |-> NoErr]

\* C9: when Retrieve succeeds and Save fails, AccessToken and Renew return
\* the retrieved token and no error.
C9_SaveFailureSwallowed ==
    \A p \in Procs :
        (/\ apc[p] = "returned"
         /\ Len(saved[p]) = 1 /\ ~saved[p][1].ok)
        => /\ Len(retrieved[p]) = 1
           /\ retrieved[p][1].err = NoErr
           /\ aret[p] = [token |-> retrieved[p][1].token, err |-> NoErr]

C9_Witness ==
    \E p \in Procs :
        /\ apc[p] = "returned" /\ op[p] = "Renew"
        /\ Len(saved[p]) = 1 /\ ~saved[p][1].ok
        /\ aret[p] = [token |-> 2, err |-> NoErr]
        /\ store.AccessToken /= 2

\* C10: the store's refresh token never changes, and every record handed to
\* Save carries the refresh token that was loaded.
C10_RefreshTokenImmutable ==
    /\ store.RefreshToken = store0.RefreshToken
    /\ \A p \in Procs : \A i \in 1..Len(saved[p]) :
          /\ loaded[p].ok
          /\ saved[p][i].rec.RefreshToken = loaded[p].rec.RefreshToken

C10_Witness ==
    \E p \in Procs :
        /\ apc[p] = "returned" /\ op[p] = "Renew"
        /\ Len(saved[p]) = 1 /\ saved[p][1].ok
        /\ store.AccessToken /= store0.AccessToken
        /\ store.RefreshToken = 1
        /\ store0.RefreshToken = 1


\* ------------------------------------------------------- error propagation
\* C11 (as claimed): Save or SaveRaw of an entry whose URI http.NewRequest
\* rejects returns the request-build error as an error value; the call is not
\* aborted in any other way.
C11_BuildFailureReturned ==
    \A p \in Procs :
        (/\ Returned(p) /\ op[p] \in {"Save", "SaveRaw"}
         /\ ~input[p].urlOK /\ input[p].marshalOK
         /\ Len(attempts[p]) >= 1)
        => /\ ~result[p].panic
           /\ result[p].err = ErrBuild

\* C12: when Retrieve fails, AccessToken and Renew return its error unchanged
\* with an empty token, after a successful Load and without a Save; when Load
\* fails they return the load error with an empty token, without Retrieve and
\* without Save.
C12_AuthErrorsPropagate ==
    \A p \in Procs :
        /\ (/\ apc[p] = "returned"
            /\ Len(retrieved[p]) >= 1
            /\ retrieved[p][Len(retrieved[p])].err /= NoErr)
           => /\ aret[p] = [token |-> EmptyString,
                            err |-> retrieved[p][Len(retrieved[p])].err]
              /\ Len(retrieved[p]) = 1
              /\ loaded[p].ok
              /\ saved[p] = <<>>
              /\ store = astore[p]
        /\ (apc[p] = "returned" /\ ~loaded[p].ok)
           => /\ aret[p] = [token |-> EmptyString, err |-> ErrLoad]
              /\ retrieved[p] = <<>>
              /\ saved[p] = <<>>
              /\ store = astore[p]
        /\ Len(retrieved[p]) >= 1 => loaded[p].ok

\* Retrieve failed on a response that is no valid JSON document although an
\* access_token was decoded from it
C12_Witness ==
    \E p \in Procs :
        /\ apc[p] = "returned" /\ op[p] = "Renew"
        /\ Len(retrieved[p]) = 1
        /\ retrieved[p][1].err = ErrJSON
        /\ retrieved[p][1].token = 1
        /\ aret[p] = [token |-> EmptyString, err |-> ErrJSON]


\* ------------------------------------------------------- concurrency
\* p is inside the load-check-exchange-store sequence: it has loaded and has
\* not yet saved
InSequence(p) == apc[p] \in {"exchange", "save"}

\* C13: callers of the Auth Manager are not mutually excluded over the
\* load-check-exchange-store sequence: while one caller is inside it, another
\* caller's Load, Retrieve and Save steps are all possible, and a caller that
\* loaded an empty access token makes its own exchange whatever the store
\* holds by then.
C13_NotMutuallyExcluded ==
    \A p \in Procs : \A q \in Procs \ {p} :
        /\ InSequence(p)
           => /\ apc[q] = "load" => ENABLED Load(q, TRUE)
              /\ apc[q] = "exchange"
                 => ENABLED (\E post \in PostOutcomes : Exchange(q, post))
              /\ apc[q] = "save" => ENABLED StorageSave(q, TRUE)
        /\ (/\ AuthReturned(p, "AccessToken")
            /\ loaded[p].rec.AccessToken = EmptyString
            /\ loaded[p].rec.RefreshToken /= EmptyString)
           => Len(retrieved[p]) = 1

\* both callers of AccessToken passed the emptiness check on the same record
\* and each made its own exchange before either saved
C13_Witness ==
    /\ \A p \in Procs :
          /\ op[p] = "AccessToken" /\ apc[p] = "save"
          /\ loaded[p].ok /\ loaded[p].rec = store
          /\ Len(retrieved[p]) = 1 /\ retrieved[p][1].err = NoErr
    /\ store.AccessToken = EmptyString


\* ------------------------------------------------------- requests
\* the names of the headers of request req
HeaderNames(req) == {h[1] : h \in req.header}

\* every request of p's operation that went on the wire
SentRequests(p) ==
    {i \in 1..Len(attempts[p]) : Sent(attempts[p][i])}

\* the headers every request carries, and those every PUT carries
ProtocolHeaders(p, i) ==
    LET a == attempts[p][i] IN
    /\ <<"GData-Version", "3.0">> \in a.r.req.header
    /\ a.r.req.method = "PUT"
       => /\ <<"Content-Type", "application/atom+xml">> \in a.r.req.header
          /\ <<"If-Match", input[p].etag>> \in a.r.req.header
    /\ a.r.req.method = "GET"
       => HeaderNames(a.r.req) \cap {"Content-Type", "If-Match"} = {}

\* Authorization: Bearer <token> exactly when the token in use is not empty
BearerIffToken(p, i) ==
    LET a == attempts[p][i] IN
    IF a.token /= EmptyString
    THEN <<"Authorization", <<"Bearer", a.token>> >> \in a.r.req.header
    ELSE "Authorization" \notin HeaderNames(a.r.req)

WireFailed(a) == a.r.err.kind \in {"do", "status", "read"}

\* C15: an attempt that reached the wire succeeds there exactly when the
\* transport delivered a response of status < 300 (headers and body); a
\* response of status >= 300 becomes the attempt's error, which carries the
\* status, and its body is returned neither by the attempt nor by the
\* operation.
C15_StatusDecidesAttempt ==
    \A p \in Procs : \A i \in SentRequests(p) :
        LET a == attempts[p][i] IN
        /\ ~WireFailed(a)
           <=> (a.t.kind = "response" /\ a.t.status < 300 /\ a.t.readOK)
        /\ (a.t.kind = "response" /\ a.t.status >= 300)
           => /\ a.r.err = StatusErr(a.t.status)
              /\ a.r.data = NoData
              /\ (Returned(p) /\ i = Len(attempts[p]))
                 => /\ result[p].val = NoData
                    /\ (i = 2 \/ ~HasRetryBlock(op[p]))
                       => result[p].err = StatusErr(a.t.status)

C15_Witness ==
    \E p \in Procs :
        /\ Returned(p) /\ op[p] = "FetchFeedRaw"
        /\ SentRequests(p) = {1, 2}
        /\ attempts[p][1].t.status = 300
        /\ attempts[p][1].r.err = StatusErr(300)
        /\ attempts[p][2].t.status = 299
        /\ result[p].val = "feed"


\* ------------------------------------------------------- Renew fails
\* p's operation had its first attempt end in an error, called Renew, and
\* Renew returned an error
RenewFailedAfterFirst(p) ==
    /\ Returned(p) /\ op[p] \in RetryingOps
    /\ Len(attempts[p]) >= 1
    /\ attempts[p][1].r.err /= NoErr /\ ~attempts[p][1].r.panic
    /\ renews[p] = 1 /\ afn[p] = "Renew"
    /\ aret[p].err /= NoErr

\* C20: when the first attempt of a fetch/save operation fails and the Renew
\* that follows fails, the operation returns Renew's error, not the first
\* attempt's, and makes no second attempt.
C20_RenewFailureReturned ==
    \A p \in Procs :
        RenewFailedAfterFirst(p)
        => /\ result[p] = OpFail(aret[p].err)
           /\ result[p].err /= attempts[p][1].r.err
           /\ Len(attempts[p]) = 1

C20_Witness ==
    \E p \in Procs :
        /\ RenewFailedAfterFirst(p) /\ op[p] = "Save"
        /\ attempts[p][1].r.err = StatusErr(401)
        /\ aret[p].err = ErrNoRefreshToken
        /\ result[p].err = ErrNoRefreshToken
        /\ Len(attempts[p]) = 1


\* ------------------------------------------------------- local identifier
\* C19: GetId returns the part of the entry's resource URI after its last
\* "/": the whole URI when it has no "/", the empty string when it ends in
\* "/", abc123 for ".../contacts/default/full/abc123"; the result holds no
\* "/" and the call does not panic.
C19_GetIdIsSuffix ==
    kpc = "id"
    => LET id == subject.Id
           r == localId IN
       /\ ~r.panic
       /\ Positions(r.val, "/") = {}
       /\ \E k \in 0..Len(id) :
              /\ r.val = SubSeq(id, k + 1, Len(id))
              /\ k = 0 \/ CharAt(id, k - 1) = "/"
       /\ Positions(id, "/") = {} => r.val = id
       /\ (id /= "" /\ CharAt(id, Len(id) - 1) = "/") => r.val = ""
       /\ id = ExampleId => r.val = "abc123"

C19_Witness ==
    /\ kpc = "id"
    /\ subject.Id = ExampleId
    /\ Len(subject.Id) - Len(localId.val) = 26
    /\ localId = [val |-> "abc123", panic |-> FALSE]


\* ------------------------------------------------------- namespaces
\* the element name that starts at the "<" at position j of document s
\* (a start or an end tag)
TagNameAt(s, j) ==
    LET b == IF CharAt(s, j + 1) = "/" THEN j + 2 ELSE j + 1
        e == SetMin({k \in b..(Len(s) - 1) : CharAt(s, k) \in {" ", ">"}})
    IN SubSeq(s, b + 1, e)

\* the element names in the tags of document s
TagNamesIn(s) == {TagNameAt(s, j) : j \in Positions(s, "<")}

Range(seq) == {seq[i] : i \in DOMAIN seq}

Encoded == kpc = "encoded"

\* C16: in an encoded document every tag of the gd enumeration occurs, as
\* start tag and as end tag, only with the prefix gd:, every tag of the
\* gContact enumeration only with gContact:, none unprefixed, also where one
\* tag name begins with another.
C16_TagsPrefixed ==
    Encoded
    => \A n \in TagNamesIn(xmlString) :
           /\ Local(n) \in Range(gdTags) => Prefix(n) = "gd"
           /\ Local(n) \in Range(gContactTags) => Prefix(n) = "gContact"

C16_Witness ==
    /\ Encoded
    /\ subject = Filled("Entry", "Ann")
    /\ {"gd:name", "gd:namePrefix", "gd:nameSuffix", "gd:im", "gd:when",
        "gd:email", "gContact:event", "gContact:groupMembershipInfo"}
           \subseteq TagNamesIn(xmlString)
    /\ {Local(n) : n \in TagNamesIn(xmlString)}
           \cap (Range(gdTags) \cup Range(gContactTags))
       = (Range(gdTags) \cup Range(gContactTags)) \ {"pobox", "neighborhood"}

\* ------------------------------------------------------- empty containers
\* C17: the document encoded from an Entry whose name and organization are
\* both all-empty holds no name element and no organization element,
\* prefixed or not.
C17_EmptyContainersElided ==
    (/\ Encoded
     /\ subject.Name = Zero("Name")
     /\ subject.Organization = Zero("Organization"))
    => \A n \in TagNamesIn(xmlString) :
           Local(n) \notin {"name", "organization"}


\* ------------------------------------------------------- round trip
Decoded == kpc = "decoded"

\* the fields the comparison leaves out
Overwritten == {"ETag"}

\* C18: decoding the document encoded from an Entry gives an Entry equal to
\* the original in every field but the entity tag.
C18_RoundTrip ==
    Decoded
    => /\ roundTrip.err = NoErr
       /\ \A g \in DOMAIN subject \ Overwritten : roundTrip.val[g] = subject[g]

\* v of struct type T as a document can carry it: each character outside
\* XML's range replaced by U+FFFD
RECURSIVE Carried(_, _)
Carried(v, T) ==
    [g \in DOMAIN v |->
        LET f == FieldOf(T, g) IN
        CASE f.kind = "string" ->
                Join([i \in 1..Len(v[g]) |->
                         IF CharAt(v[g], i - 1) \in InvalidChars
                         THEN ReplacementChar ELSE CharAt(v[g], i - 1)])
          [] f.kind = "struct" -> Carried(v[g], f.type)
          [] f.kind = "slice" ->
                [j \in 1..Len(v[g]) |-> Carried(v[g][j], f.type)]
          [] OTHER -> v[g]]

\* C18, as the code has it: decoding succeeds; XMLName comes back as the
\* unqualified name entry whatever the original held; every other field
\* but the entity tag comes back equal to the original, except that a
\* character XML cannot carry comes back as U+FFFD.
C18_RoundTripData ==
    Decoded
    => /\ roundTrip.err = NoErr
       /\ roundTrip.val.XMLName = [Space |-> "", Local |-> "entry"]
       /\ \A g \in DOMAIN subject \ (Overwritten \cup {"XMLName"}) :
              roundTrip.val[g] = Carried(subject, "Entry")[g]

C18_Witness ==
    /\ Decoded
    /\ subject = Filled("Entry", "<name></name>")
    /\ Len(subject.Emails) = 2
    /\ roundTrip.err = NoErr
    /\ roundTrip.val = subject


\* ------------------------------------------------------- tokens per attempt
\* two requests that differ at most in the Authorization header
SameButToken(q1, q2) ==
    /\ q1.method = q2.method
    /\ q1.query = q2.query
    /\ {h \in q1.header : h[1] /= "Authorization"}
       = {h \in q2.header : h[1] /= "Authorization"}

\* the step in which p's operation makes an attempt
AttemptStep(p) ==
    (op[p] \in RetryingOps /\ Len(attempts'[p]) = Len(attempts[p]) + 1)
    => LET n == Len(attempts'[p])
           a == attempts'[p][n] IN
       /\ n <= 2
       /\ aret[p].err = NoErr
       /\ afn[p] = IF n = 1 THEN "AccessToken" ELSE "Renew"
       /\ a.token = aret[p].token
       /\ n = 2 => /\ a.in = attempts[p][1].in
                   /\ SameButToken(a.r.req, attempts[p][1].r.req)

\* C21: in every fetch/save operation the first attempt is made with the
\* token AccessToken just returned and the retry with the token the Renew of
\* the same call just returned; apart from the token the retry is the first
\* attempt's request again: same arguments (URL, entry, entity tag), same
\* method, query and other headers.
C21_RetryUsesRenewedToken == [][\A p \in Procs : AttemptStep(p)]_vars

C21_Witness ==
    \E p \in Procs :
        /\ Returned(p) /\ op[p] = "SaveRaw" /\ input[p].etag = 1
        /\ SentRequests(p) = {1, 2}
        /\ attempts[p][1].token = 1
        /\ attempts[p][2].token = 2
        /\ aret[p] = [token |-> 2, err |-> NoErr]
        /\ <<"Authorization", <<"Bearer", 2>> >> \in attempts[p][2].r.req.header
        /\ <<"If-Match", 1>> \in attempts[p][2].r.req.header


\* ------------------------------------------------------- accepted PUT
\* C22: Save sends a second PUT only if the first PUT was not accepted: when
\* the first PUT is answered with a status < 300, the Save call makes no
\* Renew and no second attempt, whatever the body of the answer is.
C22_AcceptedPutNotRepeated ==
    \A p \in Procs :
        (/\ op[p] = "Save" /\ Len(attempts[p]) >= 1
         /\ Sent(attempts[p][1])
         /\ attempts[p][1].t.kind = "response"
         /\ attempts[p][1].t.status < 300)
        => /\ renews[p] = 0
           /\ Len(attempts[p]) = 1


\* ------------------------------------------------------- non-empty credential
\* C23: when AccessToken or Renew returns without error the access credential
\* it returns is not empty, whatever the token endpoint answered, and so every
\* request made with a credential so acquired carries an Authorization header.
C23_ReturnedTokenNotEmpty ==
    \A p \in Procs :
        /\ (apc[p] = "returned" /\ aret[p].err = NoErr)
           => aret[p].token /= EmptyString
        /\ \A i \in SentRequests(p) :
               \E h \in attempts[p][i].r.req.header : h[1] = "Authorization"


\* ------------------------------------------------------- failed calls
\* p's AccessToken or Renew has returned an error
AuthFailed(p) == apc[p] = "returned" /\ aret[p].err /= NoErr

\* p's AccessToken has returned, its Load having succeeded, and p has a note
\* of the call it made before
NextAccessToken(p) ==
    /\ cpc[p] = "done"
    /\ apc[p] = "returned" /\ afn[p] = "AccessToken" /\ loaded[p].ok
    /\ prev[p].fn /= "none"

\* C24: a failed AccessToken or Renew leaves the Credential Store as it was
\* when the call began: whether the load failed, the refresh credential was
\* empty or the exchange failed, Save was not called, so the clearing Renew
\* did on its copy is not stored; an AccessToken called next returns the
\* access credential the store held before the failed call, without an
\* exchange.
C24_FailedCallKeepsStore ==
    \A p \in Procs :
        /\ AuthFailed(p)
           => /\ saved[p] = <<>>
              /\ store = astore[p]
              /\ \/ ~loaded[p].ok
                 \/ authDetails[p].RefreshToken = EmptyString
                 \/ /\ Len(retrieved[p]) = 1
                    /\ retrieved[p][1].err /= NoErr
        /\ (/\ NextAccessToken(p) /\ prev[p].ret.err /= NoErr
            /\ prev[p].before.AccessToken /= EmptyString)
           => /\ aret[p] = [token |-> prev[p].before.AccessToken, err |-> NoErr]
              /\ retrieved[p] = <<>>
              /\ store = prev[p].before

C24_Witness ==
    \E p \in Procs :
        /\ NextAccessToken(p)
        /\ prev[p].fn = "Renew" /\ prev[p].ret.err = ErrPostForm
        /\ prev[p].before.AccessToken = 1
        /\ aret[p] = [token |-> 1, err |-> NoErr]
        /\ store.AccessToken = 1


\* ------------------------------------------------------- the stored token
\* p's Renew or AccessToken has made an exchange and returned its token
Exchanged(p) ==
    /\ apc[p] = "returned" /\ aret[p].err = NoErr
    /\ Len(retrieved[p]) = 1 /\ retrieved[p][1].err = NoErr

\* the Save of p's call succeeded
SaveWorked(p) == Len(saved[p]) = 1 /\ saved[p][1].ok

\* what an exchanging call leaves in the store, with one caller
StoreAfterExchange(p) ==
    /\ (Exchanged(p) /\ SaveWorked(p)) => store.AccessToken = aret[p].token
    /\ (Exchanged(p) /\ ~SaveWorked(p)) => store = astore[p]

\* the call before returned a token that the store then held: an exchange
\* followed by a successful Save, or an AccessToken served from the store
PrevStored(p) ==
    /\ prev[p].ret.err = NoErr
    /\ prev[p].saved \/ ~prev[p].exchanged

\* the call before exchanged and returned its token, and its Save failed
PrevUnsaved(p) ==
    /\ prev[p].ret.err = NoErr
    /\ prev[p].exchanged /\ ~prev[p].saved

\* p's AccessToken returned token t from the store, without an exchange
ServedFromStore(p, t) ==
    /\ aret[p] = [token |-> t, err |-> NoErr]
    /\ retrieved[p] = <<>>

\* the statement of C25 as written: the token of a saved exchange is the
\* store's and the following AccessToken calls return it with no exchange;
\* after a failed Save the next AccessToken returns the store's previous
\* access credential
C25_NextAccessTokenAsWritten ==
    \A p \in Procs :
        /\ StoreAfterExchange(p)
        /\ (NextAccessToken(p) /\ PrevStored(p))
           => ServedFromStore(p, prev[p].ret.token)
        /\ (NextAccessToken(p) /\ PrevUnsaved(p))
           => /\ aret[p].err = NoErr
              /\ aret[p].token = prev[p].before.AccessToken

\* C25: with one caller and a store whose Load succeeds, after a successful
\* Renew or exchanging AccessToken whose Save succeeded the store's access
\* credential is the token just returned, and if that token is not empty each
\* following AccessToken returns it with no exchange; after a failed Save the
\* store is as before the call, and the next AccessToken returns the previous
\* access credential if that is not empty. When the credential the store was
\* left with is empty, the next AccessToken makes an exchange of its own.
C25_NextAccessTokenFromStore ==
    \A p \in Procs :
        /\ StoreAfterExchange(p)
        /\ (NextAccessToken(p) /\ PrevStored(p))
           => IF prev[p].ret.token /= EmptyString
              THEN ServedFromStore(p, prev[p].ret.token)
              ELSE Len(retrieved[p]) = 1
        /\ (NextAccessToken(p) /\ PrevUnsaved(p))
           => IF prev[p].before.AccessToken /= EmptyString
              THEN ServedFromStore(p, prev[p].before.AccessToken)
              ELSE Len(retrieved[p]) = 1

C25_Witness ==
    \E p \in Procs :
        /\ NextAccessToken(p) /\ PrevUnsaved(p)
        /\ prev[p].fn = "Renew"
        /\ prev[p].ret.token = 2
        /\ prev[p].before.AccessToken = 1
        /\ ServedFromStore(p, 1)


\* ------------------------------------------------------- concurrent exchanges
\* C26: when the calls of two callers have both exchanged and both saved
\* successfully, the store holds the token of the exchange that happened
\* last: an older token does not overwrite a newer one.
C26_LastExchangeWins ==
    \A p, q \in Procs :
        (/\ p /= q /\ order = <<p, q>>
         /\ Exchanged(p) /\ SaveWorked(p)
         /\ Exchanged(q) /\ SaveWorked(q))
        => store.AccessToken = aret[q].token

====
